---- MODULE Spec2Model ----
(***************************************************************************)
(* A model of jsageryd/colours (src/main.go): the xterm 256-colour palette  *)
(* printer, its colour-space functions (rgb, hsv, colourTemperature ...),   *)
(* its sort strategies and its harmony generators.                          *)
(*                                                                          *)
(* The program computes in float64.  The values it compares are not the     *)
(* exact rationals (hsv(178) has hue 44.99999999999999, hsv(221) has hue    *)
(* 45.00000000000001), so float64 arithmetic is modelled bit-exactly: a     *)
(* float64 x is the record [neg, m] with m = <<a, b, c, d>> and             *)
(*     |x| = a + b/2^20 + c/2^40 + d/2^60,                                  *)
(* and every operation is the exact operation followed by IEEE-754          *)
(* round-to-nearest-even to 53 significant bits (Round53).  Every float64   *)
(* the program produces on the colour cube lies in the range this fixed     *)
(* point holds exactly: |x| < 2^12, and x = 0 or |x| >= 2^-7.               *)
(***************************************************************************)
EXTENDS Integers, Sequences, FiniteSets, TLC

(***************************************************************************)
(* float64                                                                  *)
(***************************************************************************)
Limb == 2^20

FracBits == 3 * 20

MantBits == 52 + 1

\* The number of bits of a natural n < 2^20 (0 for 0), known to be in lo..hi.
BitLenIn(n, lo, hi) == CHOOSE k \in lo..hi : n < 2^k /\ (k = 0 \/ n >= 2^(k - 1))

BitLen(n) ==
    IF n < 2^10
    THEN (IF n < 2^5 THEN BitLenIn(n, 0, 5) ELSE BitLenIn(n, 6, 10))
    ELSE (IF n < 2^15 THEN BitLenIn(n, 11, 15) ELSE BitLenIn(n, 16, 20))

MagZero == <<0, 0, 0, 0>>

MagIsZero(x) == x = MagZero

\* x + y on magnitudes, carries propagated from the lowest limb up.
MagAdd(x, y) ==
    LET d == x[4] + y[4]
        c == x[3] + y[3] + (d \div Limb)
        b == x[2] + y[2] + (c \div Limb)
        a == x[1] + y[1] + (b \div Limb)
    IN  <<a, b % Limb, c % Limb, d % Limb>>

\* x - y on magnitudes, for x >= y: limb by limb, then the borrows (a limb
\* below zero borrows from the next; a chain of borrows passes through a
\* limb that is zero after its own borrow).
MagSub(x, y) ==
    LET d  == x[4] - y[4]
        bd == IF d < 0 THEN 1 ELSE 0
        c  == x[3] - y[3] - bd
        bc == IF c < 0 THEN 1 ELSE 0
        b  == x[2] - y[2] - bc
        bb == IF b < 0 THEN 1 ELSE 0
    IN  <<x[1] - y[1] - bb, b + bb * Limb, c + bc * Limb, d + bd * Limb>>

\* -1, 0, 1 as x <, =, > y.
MagCmp(x, y) ==
    IF x[1] # y[1] THEN (IF x[1] < y[1] THEN -1 ELSE 1)
    ELSE IF x[2] # y[2] THEN (IF x[2] < y[2] THEN -1 ELSE 1)
    ELSE IF x[3] # y[3] THEN (IF x[3] < y[3] THEN -1 ELSE 1)
    ELSE IF x[4] # y[4] THEN (IF x[4] < y[4] THEN -1 ELSE 1)
    ELSE 0

\* x * k for a small natural k.
MagMulSmall(x, k) ==
    LET d == x[4] * k
        c == x[3] * k + (d \div Limb)
        b == x[2] * k + (c \div Limb)
        a == x[1] * k + (b \div Limb)
    IN  <<a, b % Limb, c % Limb, d % Limb>>

\* The highest limb of x that is not zero (4 when x is zero).
TopLimb(x) == IF x[1] # 0 THEN 1 ELSE IF x[2] # 0 THEN 2 ELSE IF x[3] # 0 THEN 3 ELSE 4

\* The number of significant bits of a magnitude (of the integer x * 2^60).
MagBitLenAt(x, j) == IF x[j] = 0 THEN 0 ELSE 20 * (4 - j) + BitLen(x[j])

MagBitLen(x) == MagBitLenAt(x, TopLimb(x))

\* Bit j (0 = lowest) of the integer x * 2^60.
MagBit(x, j) == (x[4 - (j \div 20)] \div (2 ^ (j % 20))) % 2

(***************************************************************************)
(* IEEE-754 round-to-nearest, ties-to-even, to 53 significant bits, of the  *)
(* exact value x (+ a nonzero amount below 2^-60 when sticky).  At most 19  *)
(* bits are dropped, all of them in the lowest limb: p is 2^(bits dropped)  *)
(* and r the value of the dropped bits.  A value that would need bits below *)
(* 2^-60 is outside the fixed point: the CHOOSE over the empty set makes    *)
(* the evaluation fail rather than return a wrong float.                    *)
(***************************************************************************)
RoundLow(x, sticky, p, r) ==
    IF r > p \div 2 \/ (r = p \div 2 /\ (sticky \/ (x[4] \div p) % 2 = 1))
    THEN MagAdd(<<x[1], x[2], x[3], x[4] - r>>, <<0, 0, 0, p>>)
    ELSE <<x[1], x[2], x[3], x[4] - r>>

RoundDrop(x, sticky, k) ==
    IF k <= 0
    THEN IF sticky THEN CHOOSE unrepresentable \in {} : TRUE ELSE x
    ELSE RoundLow(x, sticky, 2 ^ k, x[4] % (2 ^ k))

Round53(x, sticky) == RoundDrop(x, sticky, MagBitLen(x) - MantBits)

\* 2x + bit on magnitudes.
MagDbl(x, bit) ==
    LET d == 2 * x[4] + bit
        c == 2 * x[3] + (d \div Limb)
        b == 2 * x[2] + (c \div Limb)
        a == 2 * x[1] + (b \div Limb)
    IN  <<a, b % Limb, c % Limb, d % Limb>>

\* Restoring long division of (x * 2^shift) by y, one dividend bit per step from
\* the highest down: st.i is the next bit, st.q the quotient so far, st.r the
\* remainder so far, r2 the remainder with the next bit brought down.
MagDivSubtract(y, st, r2) ==
    IF MagCmp(r2, y) >= 0
    THEN [i |-> st.i - 1, q |-> MagDbl(st.q, 1), r |-> MagSub(r2, y)]
    ELSE [i |-> st.i - 1, q |-> MagDbl(st.q, 0), r |-> r2]

MagDivStep(x, y, shift, st) ==
    MagDivSubtract(y, st, MagDbl(st.r, IF st.i >= shift THEN MagBit(x, st.i - shift) ELSE 0))

\* n steps of the division from st (the recursion halves n, so that its depth
\* is logarithmic; st.i is read first, so that st is computed before the next
\* steps are taken).
RECURSIVE MagDivLoop(_, _, _, _, _)
MagDivLoop(x, y, shift, st, n) ==
    IF st.i < 0 \/ n = 0 THEN st
    ELSE IF n = 1 THEN MagDivStep(x, y, shift, st)
    ELSE MagDivLoop(x, y, shift, MagDivLoop(x, y, shift, st, n \div 2), n - (n \div 2))

\* Bits k and up of a magnitude: floor(x / 2^k), 0 <= k < 80.
MagShrBy(x, a, p) ==
    [j \in 1..4 |->
        (IF j - a >= 1 THEN x[j - a] \div p ELSE 0)
        + (IF j - a - 1 >= 1 THEN (x[j - a - 1] % p) * (Limb \div p) ELSE 0)]

MagShr(x, k) == MagShrBy(x, k \div 20, 2 ^ (k % 20))

\* The quotient and remainder of (x * 2^shift) by y, x of n bits.  The highest
\* skip bits of x, one fewer than y has, are below y: the division starts with
\* them as the remainder.
MagDivFrom(x, y, shift, n, skip) ==
    MagDivLoop(x, y, shift,
               [i |-> n + shift - 1 - skip, q |-> MagZero, r |-> MagShr(x, n - skip)],
               n + shift - skip)

MagDivSkip(x, y, shift, n, m) == MagDivFrom(x, y, shift, n, IF m - 1 < n THEN m - 1 ELSE n)

MagDivMod(x, y, shift) == MagDivSkip(x, y, shift, MagBitLen(x), MagBitLen(y))

\* x - n*y for the n with 0 <= x - n*y < y, by subtraction.
RECURSIVE MagRem(_, _)
MagRem(x, y) == IF MagCmp(x, y) < 0 THEN x ELSE MagRem(MagSub(x, y), y)

\* A float64; zero is never negative here (Go's -0 == 0 compares equal).
Flt(neg, m) == [neg |-> neg /\ ~MagIsZero(m), m |-> m]

\* float64(n) for an int n, |n| < 2^12.
FInt(n) == IF n < 0 THEN Flt(TRUE, <<-n, 0, 0, 0>>) ELSE Flt(FALSE, <<n, 0, 0, 0>>)

FZero == FInt(0)

FNeg(x) == Flt(~x.neg, x.m)

FAbs(x) == Flt(FALSE, x.m)

\* x + y, c being how |x| compares to |y|: the magnitudes are added when the
\* signs agree, and the smaller is taken from the larger otherwise.
FAddOrdered(x, y, c) ==
    Flt(IF c >= 0 THEN x.neg ELSE y.neg,
        Round53(IF x.neg = y.neg THEN MagAdd(x.m, y.m)
                ELSE IF c >= 0 THEN MagSub(x.m, y.m)
                ELSE MagSub(y.m, x.m),
                FALSE))

FAdd(x, y) == FAddOrdered(x, y, IF x.neg = y.neg THEN 0 ELSE MagCmp(x.m, y.m))

\* x - y.
FSub(x, y) == FAdd(x, FNeg(y))

\* x * float64(k) for a natural k.
FMulInt(x, k) == Flt(x.neg, Round53(MagMulSmall(x.m, k), FALSE))

\* x / y, y # 0.
FQuotient(neg, qr) == Flt(neg, Round53(qr.q, ~MagIsZero(qr.r)))

FDiv(x, y) == FQuotient(x.neg # y.neg, MagDivMod(x.m, y.m, FracBits))

\* math.Mod(x, y): x - trunc(x/y)*y, exact, with the sign of x.
FMod(x, y) == Flt(x.neg, MagRem(x.m, y.m))

\* cmp.Compare(x, y) on float64 (no NaN arises): -1, 0, 1.
FCmp(x, y) ==
    IF x.neg # y.neg THEN (IF x.neg THEN -1 ELSE 1)
    ELSE (IF x.neg THEN -1 ELSE 1) * MagCmp(x.m, y.m)

FLt(x, y) == FCmp(x, y) < 0

FLe(x, y) == FCmp(x, y) <= 0

FEq(x, y) == FCmp(x, y) = 0

\* math.Max, math.Min.
FMax(x, y) == IF FLt(x, y) THEN y ELSE x

FMin(x, y) == IF FLt(y, x) THEN y ELSE x

\* int(x) for x >= 0: truncation.
FTrunc(x) == x.m[1]

\* The decimal literal n/10 as the compiler rounds it: the float64 nearest n/10.
FTenths(n) == FDiv(FInt(n), FInt(10))

F0_1 == FTenths(1)

F0_2 == FTenths(2)

F0_3 == FTenths(3)

F0_7 == FTenths(7)

F360 == FInt(360)

(***************************************************************************)
(* The state.  args is the command line: whether -dist and -harm are given  *)
(* and with which value, and the boolean selectors given.  pc is the        *)
(* position of main; distance and harmonious are the values of the two      *)
(* integer flags, colour is the slice of the colour cube, stdout the        *)
(* output so far and exitCode the exit status (Running until the process    *)
(* ends).  fn, ref, num and returned are a call of one function of the     *)
(* program on its own: the function called, its colour argument, its        *)
(* numColours argument and what it returned.  pure holds the values of the  *)
(* pure functions hsv, colourGreyscale and colourSimilarityGroup on the     *)
(* colour cube, computed as the code computes them when the process starts  *)
(* and never changed: a call of one of them reads its value there.          *)
(***************************************************************************)
VARIABLES pc, args, distance, harmonious, colour, stdout, exitCode, fn, ref, num, returned,
          pure

vars == <<pc, args, distance, harmonious, colour, stdout, exitCode, fn, ref, num, returned,
          pure>>

mainVars == <<pc, args, distance, harmonious, colour, stdout, exitCode>>

callVars == <<fn, ref, num, returned, pure>>

(***************************************************************************)
(* The palette and the colour-space functions                               *)
(***************************************************************************)
CubeLo == 16

CubeHi == 231

Cube == CubeLo..CubeHi

\* makeRange(from, to)
makeRange(from, to) == [i \in 1..(to - from + 1) |-> from + i - 1]

Range(s) == {s[i] : i \in DOMAIN s}

\* A mutant of rgb: the green and the blue coordinate exchanged.
rgbGreenBlueExchanged(c) ==
    [r |-> (c - 16) \div 36, g |-> (c - 16) % 6, b |-> ((c - 16) % 36) \div 6]

\* rgb(c) = (r, g, b); c >= 16 wherever it is called, so Go's truncating / and %
\* are \div and %.
rgb(c) == [r |-> (c - 16) \div 36, g |-> ((c - 16) % 36) \div 6, b |-> (c - 16) % 6]

\* float64(k)/5.0, the normalised channel.
Norm(k) == FDiv(FInt(k), FInt(5))

NormTable == [k \in 0..5 |-> Norm(k)]

\* Lines 283-291: the hue before the wrap of lines 292-294.
hueOfDelta(rNorm, gNorm, bNorm, max, delta) ==
    IF FEq(delta, FZero) THEN FZero
    ELSE IF FEq(max, rNorm)
         THEN FMulInt(FMod(FDiv(FSub(gNorm, bNorm), delta), FInt(6)), 60)
    ELSE IF FEq(max, gNorm)
         THEN FMulInt(FAdd(FDiv(FSub(bNorm, rNorm), delta), FInt(2)), 60)
    ELSE FMulInt(FAdd(FDiv(FSub(rNorm, gNorm), delta), FInt(4)), 60)

\* A mutant of hueWrapped: the hue left as lines 283-291 computed it.
hueNotWrapped(h) == h

\* Lines 292-294.
hueWrapped(h) == IF FLt(h, FZero) THEN FAdd(h, F360) ELSE h

\* Lines 272-296.
hsvOfDelta(rNorm, gNorm, bNorm, max, delta) ==
    [h |-> hueWrapped(hueOfDelta(rNorm, gNorm, bNorm, max, delta)),
     s |-> IF FEq(max, FZero) THEN FZero ELSE FDiv(delta, max),
     v |-> max]

\* Line 270.
hsvOfRange(rNorm, gNorm, bNorm, max, min) ==
    hsvOfDelta(rNorm, gNorm, bNorm, max, FSub(max, min))

\* Lines 268-269.
hsvOfNorm(rNorm, gNorm, bNorm) ==
    hsvOfRange(rNorm, gNorm, bNorm,
               FMax(FMax(rNorm, gNorm), bNorm), FMin(FMin(rNorm, gNorm), bNorm))

\* hsv(c) as the code computes it, in float64.
hsvCalc(c) == hsvOfNorm(NormTable[rgb(c).r], NormTable[rgb(c).g], NormTable[rgb(c).b])

\* hsv(c)
hsv(c) == pure.hsv[c]

\* colourDistance(c1, c2).  The code returns math.Sqrt of this integer (the
\* squares and their sum, at most 75, are exact in float64); math.Sqrt is
\* strictly increasing and distinct integers up to 75 have distinct float64
\* roots, so comparing the sums is comparing the distances.
colourDistance(c1, c2) ==
    LET dr == rgb(c1).r - rgb(c2).r
        dg == rgb(c1).g - rgb(c2).g
        db == rgb(c1).b - rgb(c2).b
    IN  dr * dr + dg * dg + db * db

\* colourGreyscale(c) = (rNorm + gNorm + bNorm) / 3.0
colourGreyscaleCalc(c) ==
    FDiv(FAdd(FAdd(NormTable[rgb(c).r], NormTable[rgb(c).g]), NormTable[rgb(c).b]), FInt(3))

colourGreyscale(c) == pure.colourGreyscale[c]

\* colourLuminance(c) = 0.299*rNorm + 0.587*gNorm + 0.114*bNorm, here in units
\* of 1/5000 without rounding.  Two cube colours' exact luminances are equal or
\* differ by 1/5000 or more, and no two distinct cube colours have equal ones,
\* while float64 rounding (fused or not) moves a value by less than 1e-15: the
\* float64 comparison of two luminances is the comparison of these integers.
colourLuminance(c) == 299 * rgb(c).r + 587 * rgb(c).g + 114 * rgb(c).b

\* colourSimilarityGroup(c), x being hsv(c) (line 310).
colourSimilarityGroupCalc(x) ==
    IF FLt(x.s, F0_2)
    THEN IF FLt(x.v, F0_3) THEN 0
         ELSE IF FLt(x.v, F0_7) THEN 1
         ELSE 2
    ELSE 3 + FTrunc(FDiv(x.h, FInt(30)))

colourSimilarityGroup(c) == pure.colourSimilarityGroup[c]

\* The values of the three functions on the colour cube.
PureValues ==
    [hsv |-> [c \in Cube |-> hsvCalc(c)],
     colourGreyscale |-> [c \in Cube |-> colourGreyscaleCalc(c)],
     colourSimilarityGroup |-> [c \in Cube |-> colourSimilarityGroupCalc(hsvCalc(c))]]

\* A mutant of colourTemperature: the ordinals in the order the branches come.
colourTemperatureInBranchOrder(c) ==
    IF FLe(hsv(c).h, FInt(60)) \/ FLe(FInt(300), hsv(c).h) THEN 0
    ELSE IF FLe(hsv(c).h, FInt(180)) THEN 1
    ELSE 2

\* colourTemperature(c): 0 warm, 2 cool, 1 medium (float64 in the code; the
\* three values compare as these integers).
colourTemperature(c) ==
    IF FLe(hsv(c).h, FInt(60)) \/ FLe(FInt(300), hsv(c).h) THEN 0
    ELSE IF FLe(hsv(c).h, FInt(180)) THEN 2
    ELSE 1

(***************************************************************************)
(* The comparators of main's sort strategies                                *)
(***************************************************************************)
\* cmp.Compare on ints.
ICmp(x, y) == IF x < y THEN -1 ELSE IF x > y THEN 1 ELSE 0

\* cmp.Or: the first nonzero.
Or3(x, y, z) == IF x # 0 THEN x ELSE IF y # 0 THEN y ELSE z

Or4(w, x, y, z) == IF w # 0 THEN w ELSE Or3(x, y, z)

cmpDistance(a, b) ==
    Or3(ICmp(colourDistance(a, distance), colourDistance(b, distance)),
        FCmp(FNeg(hsv(a).v), FNeg(hsv(b).v)),
        FCmp(FNeg(hsv(a).s), FNeg(hsv(b).s)))

cmpGreyscale(a, b) ==
    Or3(FCmp(FNeg(colourGreyscale(a)), FNeg(colourGreyscale(b))),
        FCmp(hsv(a).h, hsv(b).h),
        FCmp(FNeg(hsv(a).s), FNeg(hsv(b).s)))

\* A mutant of cmpHue: the grey partition left out.
cmpHueNoPartition(a, b) ==
    Or3(FCmp(hsv(a).h, hsv(b).h),
        FCmp(FNeg(hsv(a).s), FNeg(hsv(b).s)),
        FCmp(FNeg(hsv(a).v), FNeg(hsv(b).v)))

cmpHue(a, b) ==
    LET aIsGrey == FLt(hsv(a).s, F0_1)
        bIsGrey == FLt(hsv(b).s, F0_1)
    IN  IF aIsGrey /\ ~bIsGrey THEN 1
        ELSE IF ~aIsGrey /\ bIsGrey THEN -1
        ELSE Or3(FCmp(hsv(a).h, hsv(b).h),
                 FCmp(FNeg(hsv(a).s), FNeg(hsv(b).s)),
                 FCmp(FNeg(hsv(a).v), FNeg(hsv(b).v)))

cmpLuminance(a, b) ==
    Or3(ICmp(colourLuminance(a), colourLuminance(b)),
        FCmp(hsv(a).h, hsv(b).h),
        FCmp(FNeg(hsv(a).s), FNeg(hsv(b).s)))

cmpSaturation(a, b) ==
    Or3(FCmp(hsv(a).s, hsv(b).s),
        FCmp(FNeg(hsv(a).v), FNeg(hsv(b).v)),
        FCmp(hsv(a).h, hsv(b).h))

cmpSimilarity(a, b) ==
    Or3(ICmp(colourSimilarityGroup(a), colourSimilarityGroup(b)),
        FCmp(FNeg(hsv(a).v), FNeg(hsv(b).v)),
        FCmp(FNeg(hsv(a).s), FNeg(hsv(b).s)))

cmpTemperature(a, b) ==
    Or4(ICmp(colourTemperature(a), colourTemperature(b)),
        FCmp(hsv(a).h, hsv(b).h),
        FCmp(FNeg(hsv(a).v), FNeg(hsv(b).v)),
        FCmp(FNeg(hsv(a).s), FNeg(hsv(b).s)))

\* A mutant of cmpRGB: the keys in the order R, G, B.
cmpRGBInChannelOrder(a, b) ==
    Or3(ICmp(rgb(a).r, rgb(b).r), ICmp(rgb(a).g, rgb(b).g), ICmp(rgb(a).b, rgb(b).b))

cmpRGB(a, b) ==
    Or3(ICmp(rgb(a).r, rgb(b).r), ICmp(rgb(a).b, rgb(b).b), ICmp(rgb(a).g, rgb(b).g))

\* The comparator each strategy of the switch hands to slices.SortFunc.
cmpFunc(strategy, a, b) ==
    CASE strategy = "dist" -> cmpDistance(a, b)
      [] strategy = "grey" -> cmpGreyscale(a, b)
      [] strategy = "hue"  -> cmpHue(a, b)
      [] strategy = "lum"  -> cmpLuminance(a, b)
      [] strategy = "sat"  -> cmpSaturation(a, b)
      [] strategy = "sim"  -> cmpSimilarity(a, b)
      [] strategy = "temp" -> cmpTemperature(a, b)
      [] OTHER             -> cmpRGB(a, b)

(***************************************************************************)
(* slices.SortFunc(s, cmp), with the comparator named by its strategy.  The *)
(* result is sorted by the comparator; the                                  *)
(* order of elements that compare equal is unspecified (the sort is not     *)
(* stable).  MergeSort is a stable merge sort; SortFunc yields its result   *)
(* on the slice and on the reversed slice, which are the same order when no *)
(* two elements compare equal, and the two extreme orders of the equal ones *)
(* otherwise.                                                               *)
(***************************************************************************)
MergeStep(strategy, st) ==
    IF st.i > Len(st.a)
       \/ (st.j <= Len(st.b) /\ cmpFunc(strategy, st.b[st.j], st.a[st.i]) < 0)
    THEN [st EXCEPT !.j = st.j + 1, !.out = Append(st.out, st.b[st.j])]
    ELSE [st EXCEPT !.i = st.i + 1, !.out = Append(st.out, st.a[st.i])]

\* n merge steps from st, or fewer when both halves are consumed.
RECURSIVE MergeLoop(_, _, _)
MergeLoop(strategy, st, n) ==
    IF (st.i > Len(st.a) /\ st.j > Len(st.b)) \/ n = 0 THEN st
    ELSE IF n = 1 THEN MergeStep(strategy, st)
    ELSE MergeLoop(strategy, MergeLoop(strategy, st, n \div 2), n - (n \div 2))

RECURSIVE MergeSort(_, _)
MergeSort(strategy, s) ==
    IF Len(s) <= 1 THEN s
    ELSE MergeLoop(strategy,
                   [a |-> MergeSort(strategy, SubSeq(s, 1, Len(s) \div 2)),
                    b |-> MergeSort(strategy, SubSeq(s, Len(s) \div 2 + 1, Len(s))),
                    i |-> 1, j |-> 1, out |-> <<>>], Len(s)).out

Reverse(s) == [i \in 1..Len(s) |-> s[Len(s) + 1 - i]]

SortFunc(s, strategy) == {MergeSort(strategy, t) : t \in {s, Reverse(s)}}

(***************************************************************************)
(* The harmony generators                                                   *)
(***************************************************************************)
\* The numColours generateHarmonyScheme is called with (lines 539-543).
SchemeSizes == 2..6

\* complementHue := math.Mod(refH+180, 360)
complementHue(refH) == FMod(FAdd(refH, FInt(180)), F360)

\* splitHue1 := math.Mod(complementHue-30, 360): math.Mod keeps the sign of
\* its first argument, so splitHue1 is negative when complementHue < 30.
splitHue1(refH) == FMod(FSub(complementHue(refH), FInt(30)), F360)

\* splitHue2 := math.Mod(complementHue+30, 360)
splitHue2(refH) == FMod(FAdd(complementHue(refH), FInt(30)), F360)

\* angleStep := 360.0 / float64(numColours)
angleStep(numColours) == FDiv(F360, FInt(numColours))

\* The circular distance between hue h and hue t as lines 362, 411 and 424
\* compute it: math.Min(math.Abs(h-t), 360-math.Abs(h-t)).
hueDistance(d) == FMin(d, FSub(F360, d))

hueDiff(h, t) == hueDistance(FAbs(FSub(h, t)))

\* A mutant of findClosestStep: a colour as close as the best so far replaces it.
findClosestStepLast(colours, referenceColour, st) ==
    LET c    == colours[st.i]
        skip == [st EXCEPT !.i = st.i + 1]
    IN  IF c = referenceColour THEN skip
        ELSE IF FLt(hsv(c).v, F0_3) \/ FLt(hsv(c).s, F0_3) THEN skip
        ELSE LET diff == hueDiff(hsv(c).h, st.targetHue)
             IN  IF FLe(diff, st.bestDiff)
                 THEN [st EXCEPT !.i = st.i + 1, !.bestColour = c, !.bestDiff = diff]
                 ELSE skip

\* One iteration of the loop of findClosestColour, at colours[st.i].  st holds
\* the locals of the call: the target hue, the position in the slice, and
\* bestColour and bestDiff.
findClosestStep(colours, referenceColour, st) ==
    LET c    == colours[st.i]
        skip == [st EXCEPT !.i = st.i + 1]
    IN  IF c = referenceColour THEN skip
        ELSE IF FLt(hsv(c).v, F0_3) \/ FLt(hsv(c).s, F0_3) THEN skip
        ELSE LET diff == hueDiff(hsv(c).h, st.targetHue)
             IN  IF FLt(diff, st.bestDiff)
                 THEN [st EXCEPT !.i = st.i + 1, !.bestColour = c, !.bestDiff = diff]
                 ELSE skip

\* n iterations of the loop from st, or fewer when the slice is consumed.
RECURSIVE findClosestLoop(_, _, _, _)
findClosestLoop(colours, referenceColour, st, n) ==
    IF st.i > Len(colours) \/ n = 0 THEN st
    ELSE IF n = 1 THEN findClosestStep(colours, referenceColour, st)
    ELSE findClosestLoop(colours, referenceColour,
             findClosestLoop(colours, referenceColour, st, n \div 2), n - (n \div 2))

\* findClosestColour(targetHue, colours, referenceColour); -1 when no colour
\* is eligible.
findClosestColour(targetHue, colours, referenceColour) ==
    findClosestLoop(colours, referenceColour,
                    [targetHue |-> targetHue, i |-> 1, bestColour |-> -1, bestDiff |-> F360],
                    Len(colours)).bestColour

\* append(result, closest) unless closest is -1.
AppendFound(result, closest) == IF closest # -1 THEN Append(result, closest) ELSE result

\* targetHue := math.Mod(refH+angleStep*float64(i), 360)
targetHueAt(st) == FMod(FAdd(st.refH, FMulInt(st.angleStep, st.i)), F360)

\* The loop of generateHarmonyScheme from st on; st holds the locals of the
\* call: refH, angleStep, i and result.
RECURSIVE harmonySchemeLoop(_, _, _, _)
harmonySchemeLoop(referenceColour, colours, numColours, st) ==
    IF st.i >= numColours THEN st.result
    ELSE harmonySchemeLoop(referenceColour, colours, numColours,
             [st EXCEPT !.i = st.i + 1,
                        !.result = AppendFound(st.result,
                                       findClosestColour(targetHueAt(st), colours,
                                                         referenceColour))])

\* generateHarmonyScheme(referenceColour, colours, numColours)
generateHarmonyScheme(referenceColour, colours, numColours) ==
    IF numColours < 2 THEN <<referenceColour>>
    ELSE harmonySchemeLoop(referenceColour, colours, numColours,
             [refH |-> hsv(referenceColour).h, angleStep |-> angleStep(numColours),
              i |-> 1, result |-> <<referenceColour>>])

\* generateSplitComplementary(referenceColour, colours, numColours)
generateSplitComplementary(referenceColour, colours, numColours) ==
    IF referenceColour < 16 \/ referenceColour > 231 THEN <<referenceColour>>
    ELSE AppendFound(
             AppendFound(<<referenceColour>>,
                 findClosestColour(splitHue1(hsv(referenceColour).h), colours, referenceColour)),
             findClosestColour(splitHue2(hsv(referenceColour).h), colours, referenceColour))

\* A mutant of generateRGBGradient: the channels tested in the order B, G, R.
generateRGBGradientBlueFirst(referenceColour, colours, numColours) ==
    IF referenceColour < 16 \/ referenceColour > 231 THEN <<referenceColour>>
    ELSE LET refR == rgb(referenceColour).r
             refG == rgb(referenceColour).g
             refB == rgb(referenceColour).b
             maxComponent == FMax(FMax(FInt(refR), FInt(refG)), FInt(refB))
         IN  IF FEq(FInt(refB), maxComponent)
             THEN [b \in 1..6 |-> 16 + refR * 36 + refG * 6 + (b - 1)]
             ELSE IF FEq(FInt(refG), maxComponent)
             THEN [g \in 1..6 |-> 16 + refR * 36 + (g - 1) * 6 + refB]
             ELSE [r \in 1..6 |-> 16 + (r - 1) * 36 + refG * 6 + refB]

\* generateRGBGradient(referenceColour, colours, numColours)
generateRGBGradient(referenceColour, colours, numColours) ==
    IF referenceColour < 16 \/ referenceColour > 231 THEN <<referenceColour>>
    ELSE LET refR == rgb(referenceColour).r
             refG == rgb(referenceColour).g
             refB == rgb(referenceColour).b
             maxComponent == FMax(FMax(FInt(refR), FInt(refG)), FInt(refB))
         IN  IF FEq(FInt(refR), maxComponent)
             THEN [r \in 1..6 |-> 16 + (r - 1) * 36 + refG * 6 + refB]
             ELSE IF FEq(FInt(refG), maxComponent)
             THEN [g \in 1..6 |-> 16 + refR * 36 + (g - 1) * 6 + refB]
             ELSE [b \in 1..6 |-> 16 + refR * 36 + refG * 6 + (b - 1)]

\* The candidates of generateMonochromeSequential: the colours within
\* tolerance degrees of the reference hue, in slice order.
hueCandidates(refH, colours, tolerance) ==
    SelectSeq(colours, LAMBDA c : FLe(hueDiff(hsv(c).h, refH), FInt(tolerance)))

\* The colours of S of least value (brightness).
Darkest(S) == {c \in S : \A d \in S : FLe(hsv(c).v, hsv(d).v)}

\* The first n entries that slices.SortFunc by value can leave of the colours
\* S.  The sort is not stable: colours of equal value come in any order.
RECURSIVE SortedByValue(_, _)
SortedByValue(S, n) ==
    IF n = 0 \/ S = {} THEN {<<>>}
    ELSE UNION {{<<c>> \o rest : rest \in SortedByValue(S \ {c}, n - 1)} : c \in Darkest(S)}

\* A mutant of includeReference: the selection is not sorted again.
includeReferenceUnsorted(referenceColour, result) ==
    IF (\A i \in DOMAIN result : result[i] # referenceColour) /\ Len(result) > 0
    THEN {[result EXCEPT ![Len(result) \div 2 + 1] = referenceColour]}
    ELSE {result}

\* Lines 452-463: a selection without the reference gets it at the middle
\* index and is sorted again.
includeReference(referenceColour, result) ==
    IF (\A i \in DOMAIN result : result[i] # referenceColour) /\ Len(result) > 0
    THEN LET midIndex == Len(result) \div 2
             replaced == [result EXCEPT ![midIndex + 1] = referenceColour]
         IN  SortedByValue(Range(replaced), Len(replaced))
    ELSE {result}

\* generateMonochromeSequential(referenceColour, colours, numColours): the set
\* of slices it can return.
generateMonochromeSequential(referenceColour, colours, numColours) ==
    IF referenceColour < 16 \/ referenceColour > 231 THEN {<<referenceColour>>}
    ELSE LET refH       == hsv(referenceColour).h
             narrow     == hueCandidates(refH, colours, 5)
             candidates == IF Len(narrow) < numColours
                           THEN hueCandidates(refH, colours, 15)
                           ELSE narrow
             count      == IF Len(candidates) < numColours THEN Len(candidates)
                           ELSE numColours
         IN  UNION {includeReference(referenceColour, selected) :
                        selected \in SortedByValue(Range(candidates), count)}

\* findHarmoniousColours(referenceColour, colours): the maps it can return,
\* one for each slice generateMonochromeSequential can return.
findHarmoniousColours(referenceColour, colours) ==
    {   ("Complementary" :> generateHarmonyScheme(referenceColour, colours, 2))
     @@ ("Triadic" :> generateHarmonyScheme(referenceColour, colours, 3))
     @@ ("Tetradic" :> generateHarmonyScheme(referenceColour, colours, 4))
     @@ ("Pentadic" :> generateHarmonyScheme(referenceColour, colours, 5))
     @@ ("Hexadic" :> generateHarmonyScheme(referenceColour, colours, 6))
     @@ ("Split-complementary" :> generateSplitComplementary(referenceColour, colours, 3))
     @@ ("Monochrome sequential" :> mono)
     @@ ("RGB gradient" :> generateRGBGradient(referenceColour, colours, 6))
     : mono \in generateMonochromeSequential(referenceColour, colours, 6)}

(***************************************************************************)
(* Output.  Standard output is the sequence of the print calls made: each   *)
(* is the record of its format and its arguments (s the string argument,    *)
(* "" for none; d the integer argument, 0 for none), which determine the    *)
(* text written.                                                            *)
(***************************************************************************)
Printf(fmt, s, d) == [fmt |-> fmt, s |-> s, d |-> d]

Println == Printf("\n", "", 0)

\* printColour(c, fg): the cell of colour c, as foreground or as background.
printColour(c, fg) ==
    IF fg THEN Printf("ESC[38;5;%[1]dm  |%03[1]d|ESC[0m", "", c)
    ELSE Printf("ESC[48;5;%[1]dm  %03[1]d  ESC[0m", "", c)

\* for _, t := range []bool{false, true} { for _, c := range row { printColour(c, t) } }
printRow(row) ==
    [i \in 1..(2 * Len(row)) |->
        IF i <= Len(row) THEN printColour(row[i], FALSE)
        ELSE printColour(row[i - Len(row)], TRUE)]

\* slices.Chunk(s, n): the consecutive sub-slices of up to n elements.
Chunk(s, n) ==
    [k \in 1..((Len(s) + n - 1) \div n) |->
        SubSeq(s, (k - 1) * n + 1, IF k * n < Len(s) THEN k * n ELSE Len(s))]

\* The concatenation of f[lo], ..., f[hi].
RECURSIVE ConcatAll(_, _, _)
ConcatAll(f, lo, hi) ==
    IF lo > hi THEN <<>>
    ELSE IF lo = hi THEN f[lo]
    ELSE ConcatAll(f, lo, (lo + hi) \div 2) \o ConcatAll(f, (lo + hi) \div 2 + 1, hi)

harmonyOrder ==
    <<"Complementary", "Split-complementary", "Triadic", "Tetradic", "Pentadic",
      "Hexadic", "Monochrome sequential", "RGB gradient">>

\* One iteration of the loop of printColourHarmonies (lines 581-597).
printHarmony(harmonyType, colours) ==
    IF Len(colours) <= 1 THEN <<>>
    ELSE <<Printf("%s (%d colours):\n", harmonyType, Len(colours))>>
         \o printRow(colours) \o <<Println, Println>>

\* printColourHarmonies(referenceColour, colours): the outputs it can write.
printColourHarmonies(referenceColour, colours) ==
    {<<Printf("Colour harmonies for colour %d:\n\n", "", referenceColour)>>
     \o ConcatAll([k \in 1..Len(harmonyOrder) |->
                      printHarmony(harmonyOrder[k], harmonies[harmonyOrder[k]])],
                  1, Len(harmonyOrder))
     : harmonies \in findHarmoniousColours(referenceColour, colours)}

\* Lines 203-213: the ends of the standard and the high-intensity colours.
printEnds(standard, high) ==
    LET rows == Chunk(<<standard[1], standard[Len(standard)], high[1], high[Len(high)]>>, 2)
    IN  ConcatAll([k \in 1..Len(rows) |-> printRow(rows[k]) \o <<Println>>], 1, Len(rows))

\* Lines 215-226: the other standard and high-intensity colours.
printMiddle(standard, high) ==
    LET rows == Chunk(SubSeq(standard, 2, Len(standard) - 1)
                      \o SubSeq(high, 2, Len(high) - 1), 6)
    IN  ConcatAll([k \in 1..Len(rows) |-> <<Println>> \o printRow(rows[k])], 1, Len(rows))
        \o <<Println>>

\* Lines 230-237: one block of up to 36 colours, in rows of 6.
printBlock(block) ==
    LET rows == Chunk(block, 6)
    IN  ConcatAll([k \in 1..Len(rows) |-> printRow(rows[k]) \o <<Println>>], 1, Len(rows))

\* Lines 228-238: the colour cube, in the order the strategy left it, and the
\* greyscale ramp.
printBlocks(colours, grey) ==
    LET blocks == Chunk(colours \o grey, 36)
    IN  ConcatAll([k \in 1..Len(blocks) |-> <<Println>> \o printBlock(blocks[k])],
                  1, Len(blocks))

\* Lines 203-238.
printPalette(standard, high, colours, grey) ==
    printEnds(standard, high) \o printMiddle(standard, high) \o printBlocks(colours, grey)

Running == 0 - 1

\* How far beyond the ends of the valid band, and below zero, the values given
\* to -dist and -harm go.
Margin == 1

\* The values given to -dist and -harm: zero and below, and both sides of
\* each end of 16..231.
IntInputs == ((0 - Margin)..0) \cup ((CubeLo - Margin)..CubeLo) \cup (CubeHi..(CubeHi + Margin))

Selectors == {"grey", "hue", "lum", "sat", "sim", "temp"}

\* The boolean selectors given: none, one of them, or all of them.
FlagSets == {{}} \cup {{f} : f \in Selectors} \cup {Selectors}

Args ==
    {a \in [distGiven : BOOLEAN, dist : IntInputs, harmGiven : BOOLEAN, harm : IntInputs,
            flags : FlagSets] :
        /\ (~a.distGiven => a.dist = 0)
        /\ (~a.harmGiven => a.harm = 0)}

\* Lines 37, 38 and 40: the slices no strategy changes.
standard == makeRange(0, 7)

high == makeRange(8, 15)

grey == makeRange(232, 255)

\* No call of a function on its own is under way.
NoCall == fn = "none" /\ ref = 0 /\ num = 0 /\ returned = <<>> /\ pure = PureValues

\* The process starts: the flags are defined with their defaults (lines 13-20).
Init ==
    /\ pc = "parse"
    /\ args \in Args
    /\ distance = 0
    /\ harmonious = 0
    /\ colour = <<>>
    /\ stdout = <<>>
    /\ exitCode = Running
    /\ NoCall

\* flag.Parse() (line 22).
Parse ==
    /\ pc = "parse"
    /\ distance' = (IF args.distGiven THEN args.dist ELSE distance)
    /\ harmonious' = (IF args.harmGiven THEN args.harm ELSE harmonious)
    /\ pc' = "validateDistance"
    /\ UNCHANGED <<args, colour, stdout, exitCode, callVars>>

\* Lines 25-28.
ValidateDistance ==
    /\ pc = "validateDistance"
    /\ IF distance # 0 /\ (distance < 16 \/ distance > 231)
       THEN /\ stdout' = Append(stdout,
                   Printf("Error: -dist requires a colour number between 16-231 (got %d)\n",
                          "", distance))
            /\ exitCode' = 1
            /\ pc' = "exited"
       ELSE /\ pc' = "validateHarmonious"
            /\ UNCHANGED <<stdout, exitCode>>
    /\ UNCHANGED <<args, distance, harmonious, colour, callVars>>

\* Lines 31-34.
ValidateHarmonious ==
    /\ pc = "validateHarmonious"
    /\ IF harmonious # 0 /\ (harmonious < 16 \/ harmonious > 231)
       THEN /\ stdout' = Append(stdout,
                   Printf("Error: -harm requires a colour number from 16 to 231 (got %d)\n",
                          "", harmonious))
            /\ exitCode' = 1
            /\ pc' = "exited"
       ELSE /\ pc' = "makeRange"
            /\ UNCHANGED <<stdout, exitCode>>
    /\ UNCHANGED <<args, distance, harmonious, colour, callVars>>

\* Lines 36-41.
MakeRanges ==
    /\ pc = "makeRange"
    /\ colour' = makeRange(CubeLo, CubeHi)
    /\ pc' = "switch"
    /\ UNCHANGED <<args, distance, harmonious, stdout, exitCode, callVars>>

\* The case of the switch (lines 43-201) that is taken: the first whose
\* condition holds.
Strategy ==
    IF distance # 0 THEN "dist"
    ELSE IF "grey" \in args.flags THEN "grey"
    ELSE IF harmonious # 0 THEN "harm"
    ELSE IF "hue" \in args.flags THEN "hue"
    ELSE IF "lum" \in args.flags THEN "lum"
    ELSE IF "sat" \in args.flags THEN "sat"
    ELSE IF "sim" \in args.flags THEN "sim"
    ELSE IF "temp" \in args.flags THEN "temp"
    ELSE "rgb"

\* Lines 44-64.
SortDistance ==
    /\ pc = "switch"
    /\ Strategy = "dist"
    /\ colour' \in SortFunc(colour, "dist")
    /\ pc' = "print"
    /\ UNCHANGED <<args, distance, harmonious, stdout, exitCode, callVars>>

\* Lines 65-84.
SortGreyscale ==
    /\ pc = "switch"
    /\ Strategy = "grey"
    /\ colour' \in SortFunc(colour, "grey")
    /\ pc' = "print"
    /\ UNCHANGED <<args, distance, harmonious, stdout, exitCode, callVars>>

\* Lines 85-88: the harmonies are printed and main returns.
ShowHarmonies ==
    /\ pc = "switch"
    /\ Strategy = "harm"
    /\ stdout' \in {stdout \o out : out \in printColourHarmonies(harmonious, colour)}
    /\ exitCode' = 0
    /\ pc' = "exited"
    /\ UNCHANGED <<args, distance, harmonious, colour, callVars>>

\* Lines 89-113.
SortHue ==
    /\ pc = "switch"
    /\ Strategy = "hue"
    /\ colour' \in SortFunc(colour, "hue")
    /\ pc' = "print"
    /\ UNCHANGED <<args, distance, harmonious, stdout, exitCode, callVars>>

\* Lines 114-133.
SortLuminance ==
    /\ pc = "switch"
    /\ Strategy = "lum"
    /\ colour' \in SortFunc(colour, "lum")
    /\ pc' = "print"
    /\ UNCHANGED <<args, distance, harmonious, stdout, exitCode, callVars>>

\* Lines 134-150.
SortSaturation ==
    /\ pc = "switch"
    /\ Strategy = "sat"
    /\ colour' \in SortFunc(colour, "sat")
    /\ pc' = "print"
    /\ UNCHANGED <<args, distance, harmonious, stdout, exitCode, callVars>>

\* Lines 151-170.
SortSimilarity ==
    /\ pc = "switch"
    /\ Strategy = "sim"
    /\ colour' \in SortFunc(colour, "sim")
    /\ pc' = "print"
    /\ UNCHANGED <<args, distance, harmonious, stdout, exitCode, callVars>>

\* Lines 171-188.
SortTemperature ==
    /\ pc = "switch"
    /\ Strategy = "temp"
    /\ colour' \in SortFunc(colour, "temp")
    /\ pc' = "print"
    /\ UNCHANGED <<args, distance, harmonious, stdout, exitCode, callVars>>

\* Lines 189-200.
SortRGB ==
    /\ pc = "switch"
    /\ Strategy = "rgb"
    /\ colour' \in SortFunc(colour, "rgb")
    /\ pc' = "print"
    /\ UNCHANGED <<args, distance, harmonious, stdout, exitCode, callVars>>

\* Lines 203-239: the palette is printed and main returns.
PrintPalette ==
    /\ pc = "print"
    /\ stdout' = stdout \o printPalette(standard, high, colour, grey)
    /\ exitCode' = 0
    /\ pc' = "exited"
    /\ UNCHANGED <<args, distance, harmonious, colour, callVars>>

Next ==
    \/ Parse
    \/ ValidateDistance
    \/ ValidateHarmonious
    \/ MakeRanges
    \/ SortDistance
    \/ SortGreyscale
    \/ ShowHarmonies
    \/ SortHue
    \/ SortLuminance
    \/ SortSaturation
    \/ SortSimilarity
    \/ SortTemperature
    \/ SortRGB
    \/ PrintPalette

Spec == Init /\ [][Next]_vars

(***************************************************************************)
(* The functions on their own: one call of one function with a colour of    *)
(* the cube (and a numColours), the palette slice being makeRange(16, 231)  *)
(* as main passes it.                                                       *)
(***************************************************************************)
NoProcess ==
    /\ pc = "idle"
    /\ args = [distGiven |-> FALSE, dist |-> 0, harmGiven |-> FALSE, harm |-> 0, flags |-> {}]
    /\ distance = 0
    /\ harmonious = 0
    /\ colour = makeRange(CubeLo, CubeHi)
    /\ stdout = <<>>
    /\ exitCode = Running

InitFn ==
    /\ NoProcess
    /\ fn = "none"
    /\ ref \in Cube
    /\ num = 0
    /\ returned = <<>>
    /\ pure = PureValues

CallRgb ==
    /\ fn = "none"
    /\ fn' = "rgb"
    /\ num' = 0
    /\ returned' = rgb(ref)
    /\ UNCHANGED <<ref, pure, mainVars>>

CallHsv ==
    /\ fn = "none"
    /\ fn' = "hsv"
    /\ num' = 0
    /\ returned' = hsv(ref)
    /\ UNCHANGED <<ref, pure, mainVars>>

CallTemperature ==
    /\ fn = "none"
    /\ fn' = "colourTemperature"
    /\ num' = 0
    /\ returned' = colourTemperature(ref)
    /\ UNCHANGED <<ref, pure, mainVars>>

\* numColours 1 takes the early return of line 375, 2..6 are the calls of
\* findHarmoniousColours.
CallHarmonyScheme ==
    /\ fn = "none"
    /\ fn' = "generateHarmonyScheme"
    /\ num' \in {1} \cup SchemeSizes
    /\ returned' = generateHarmonyScheme(ref, colour, num')
    /\ UNCHANGED <<ref, pure, mainVars>>

CallSplitComplementary ==
    /\ fn = "none"
    /\ fn' = "generateSplitComplementary"
    /\ num' = 3
    /\ returned' = generateSplitComplementary(ref, colour, 3)
    /\ UNCHANGED <<ref, pure, mainVars>>

CallMonochromeSequential ==
    /\ fn = "none"
    /\ fn' = "generateMonochromeSequential"
    /\ num' = 6
    /\ returned' \in generateMonochromeSequential(ref, colour, 6)
    /\ UNCHANGED <<ref, pure, mainVars>>

CallRGBGradient ==
    /\ fn = "none"
    /\ fn' = "generateRGBGradient"
    /\ num' = 6
    /\ returned' = generateRGBGradient(ref, colour, 6)
    /\ UNCHANGED <<ref, pure, mainVars>>

NextFn ==
    \/ CallRgb
    \/ CallHsv
    \/ CallTemperature
    \/ CallHarmonyScheme
    \/ CallSplitComplementary
    \/ CallMonochromeSequential
    \/ CallRGBGradient

SpecFn == InitFn /\ [][NextFn]_vars

(***************************************************************************)
(* The properties.  Those of the functions are stated of SpecFn, at the     *)
(* state after the call: ref is the argument, returned the result and the   *)
(* candidate set is the cube band 16..231 in ascending order, so that the   *)
(* first candidate encountered is the one of least index.                   *)
(***************************************************************************)
Channels == 0..5

\* The circular hue distance min(|h1-h2|, 360-|h1-h2|), in float64.
CircularDistance(h1, h2) == FMin(FAbs(FSub(h1, h2)), FSub(F360, FAbs(FSub(h1, h2))))

\* c is a candidate for a harmony of referenceColour: not the reference, and
\* saturation >= 0.3 and value >= 0.3.
Eligible(c, referenceColour) ==
    c # referenceColour /\ FLe(F0_3, hsv(c).s) /\ FLe(F0_3, hsv(c).v)

\* No candidate is closer to hue t than distance d, and none of lower index
\* is as close.
NoneCloser(c, d, t, referenceColour) ==
    \A e \in Cube :
        Eligible(e, referenceColour) =>
            \/ FLt(d, CircularDistance(hsv(e).h, t))
            \/ (FEq(d, CircularDistance(hsv(e).h, t)) /\ c <= e)

\* c is the first candidate encountered among those closest to hue t.
FirstClosest(c, t, referenceColour) ==
    /\ c \in Cube
    /\ Eligible(c, referenceColour)
    /\ NoneCloser(c, CircularDistance(hsv(c).h, t), t, referenceColour)

\* The hue x brought onto the circle [0, 360), for -360 < x.
OnCircle(x) == IF FLt(x, FZero) THEN FAdd(FMod(x, F360), F360) ELSE FMod(x, F360)

\* The complement of hue h: (h + 180) mod 360.
Complement(h) == OnCircle(FAdd(h, FInt(180)))

\* C1: generateSplitComplementary returns the reference, then the first
\* candidate closest to the hue (complement - 30) and then the first candidate
\* closest to the hue (complement + 30), both hues taken on the circle, for
\* every reference of the cube band, those of hue in [180, 210) included.
C1_SplitComplementaryOnCircle ==
    fn = "generateSplitComplementary" =>
        /\ Len(returned) = 3
        /\ returned[1] = ref
        /\ FirstClosest(returned[2],
                        OnCircle(FSub(Complement(hsv(ref).h), FInt(30))), ref)
        /\ FirstClosest(returned[3],
                        OnCircle(FAdd(Complement(hsv(ref).h), FInt(30))), ref)

\* The target hue of position k of a scheme of n colours:
\* (reference hue + k*360/n) mod 360.
SchemeTarget(h, n, k) == OnCircle(FAdd(h, FMulInt(FDiv(F360, FInt(n)), k)))

\* C2: for N in 2..6 generateHarmonyScheme returns exactly N entries: the
\* reference, then for k = 1..N-1 the first candidate encountered among those
\* closest to the target hue (reference hue + k*360/N) mod 360; the reference
\* is at no other position and no position is left out.
C2_HarmonySchemeFirstClosest ==
    (fn = "generateHarmonyScheme" /\ num \in SchemeSizes) =>
        /\ Len(returned) = num
        /\ returned[1] = ref
        /\ \A k \in 1..(num - 1) :
               /\ returned[k + 1] # ref
               /\ FirstClosest(returned[k + 1], SchemeTarget(hsv(ref).h, num, k), ref)

\* A Complementary scheme (N = 2) in which a later candidate is as close to
\* the target hue as the one returned.
C2_Witness ==
    /\ fn = "generateHarmonyScheme"
    /\ num = 2
    /\ Len(returned) = 2
    /\ \E e \in Cube :
           /\ e > returned[2]
           /\ Eligible(e, ref)
           /\ FEq(CircularDistance(hsv(e).h, SchemeTarget(hsv(ref).h, 2, 1)),
                  CircularDistance(hsv(returned[2]).h, SchemeTarget(hsv(ref).h, 2, 1)))

\* C3: generateMonochromeSequential with target count 6 returns a non-empty
\* sequence of at most 6 distinct cube indices that holds the reference
\* exactly once and is in non-decreasing order of value, however the sort
\* orders colours of equal value and also when the reference replaced the
\* middle element.
C3_MonochromeSequentialOrdered ==
    fn = "generateMonochromeSequential" =>
        /\ Len(returned) \in 1..6
        /\ \A i \in DOMAIN returned : returned[i] \in Cube
        /\ \A i, j \in DOMAIN returned : i # j => returned[i] # returned[j]
        /\ Cardinality({i \in DOMAIN returned : returned[i] = ref}) = 1
        /\ \A i \in 1..(Len(returned) - 1) :
               FLe(hsv(returned[i]).v, hsv(returned[i + 1]).v)

\* The reference was not among the first 6 sorted candidates (6 or more
\* colours within 5 degrees of its hue are darker) and took the place of the
\* middle one; two colours of the result have equal value.
C3_Witness ==
    /\ fn = "generateMonochromeSequential"
    /\ Len(returned) = 6
    /\ \E i \in 1..5 : FEq(hsv(returned[i]).v, hsv(returned[i + 1]).v)
    /\ Cardinality({c \in Cube :
           /\ FLt(hsv(c).v, hsv(ref).v)
           /\ FLe(CircularDistance(hsv(c).h, hsv(ref).h), FInt(5))}) >= 6

\* C5: rgb maps every index of 16..231 to a triplet of components in 0..5,
\* no other index has the same triplet, all 216 triplets are covered and
\* 16 + 36*r + 6*g + b is the inverse.
C5_RgbBijection ==
    fn = "rgb" =>
        /\ returned.r \in Channels /\ returned.g \in Channels /\ returned.b \in Channels
        /\ 16 + 36 * returned.r + 6 * returned.g + returned.b = ref
        /\ \A i \in Cube \ {ref} : rgb(i) # returned
        /\ {rgb(i) : i \in Cube} = [r : Channels, g : Channels, b : Channels]
        /\ Cardinality(Cube) = 216

\* The triplet of index 25 = 16 + 36*0 + 6*1 + 3.
C5_Witness == fn = "rgb" /\ ref = 25 /\ returned = [r |-> 0, g |-> 1, b |-> 3]

\* c is achromatic: max - min of its channels is 0.
Achromatic(c) == rgb(c).r = rgb(c).g /\ rgb(c).g = rgb(c).b

\* C6: hsv returns a hue in [0, 360), a saturation in [0, 1] and a value in
\* [0, 1]; for the six achromatic indices the hue is 0 and the saturation 0.
C6_HsvRanges ==
    fn = "hsv" =>
        /\ FLe(FZero, returned.h) /\ FLt(returned.h, F360)
        /\ FLe(FZero, returned.s) /\ FLe(returned.s, FInt(1))
        /\ FLe(FZero, returned.v) /\ FLe(returned.v, FInt(1))
        /\ Achromatic(ref) => (FEq(returned.h, FZero) /\ FEq(returned.s, FZero))
        /\ Cardinality({c \in Cube : Achromatic(c)}) = 6

\* A hue that was negative before the wrap: red is the largest channel and
\* green is below blue.
C6_Witness ==
    /\ fn = "hsv"
    /\ rgb(ref).r > rgb(ref).b
    /\ rgb(ref).g < rgb(ref).b
    /\ FLt(FInt(300), returned.h)

\* The channel generateRGBGradient sweeps: the one of the largest coordinate,
\* R before G before B among equals.
SweptChannel(c) ==
    IF rgb(c).r >= rgb(c).g /\ rgb(c).r >= rgb(c).b THEN "r"
    ELSE IF rgb(c).g >= rgb(c).b THEN "g"
    ELSE "b"

\* C7: generateRGBGradient returns 6 cube indices in which the swept channel
\* takes the values 0..5 in that order and the other two channels are the
\* reference's; the reference is at the position of its swept-channel value;
\* for reference 16 the result is 16, 52, 88, 124, 160, 196.
C7_RGBGradientSweep ==
    fn = "generateRGBGradient" =>
        /\ Len(returned) = 6
        /\ \A k \in Channels :
               /\ returned[k + 1] \in Cube
               /\ rgb(returned[k + 1]) = [rgb(ref) EXCEPT ![SweptChannel(ref)] = k]
        /\ returned[rgb(ref)[SweptChannel(ref)] + 1] = ref
        /\ ref = 16 => returned = <<16, 52, 88, 124, 160, 196>>

\* The gradient of reference 16, whose three channels are equal.
C7_Witness ==
    fn = "generateRGBGradient" /\ ref = 16 /\ returned = <<16, 52, 88, 124, 160, 196>>

(***************************************************************************)
(* The properties of the program are stated of Spec.  Shown is the order in *)
(* which the cells of the cube band 16..231 are written to standard output: *)
(* the colours of its background cells.                                     *)
(***************************************************************************)
Shown ==
    LET cells == SelectSeq(stdout,
                     LAMBDA p : p.fmt = printColour(0, FALSE).fmt /\ p.d \in Cube)
    IN  [i \in DOMAIN cells |-> cells[i].d]

\* out is a permutation of the 216 cube indices.
PermutationOfCube(out) == Len(out) = 216 /\ Range(out) = Cube

\* The position of colour c in out.
Position(out, c) == CHOOSE i \in DOMAIN out : out[i] = c

\* The value is given and is outside 16..231.
OutOfRange(given, value) == given /\ (value < 16 \/ value > 231)

\* C4: an invocation that gives -dist or -harm a value outside 16..231 (0 and
\* the negative values included), whatever other selectors it gives, runs no
\* ordering and no harmony computation, writes nothing but an error message
\* and ends with a non-zero exit status.
C4_OutOfRangeRejected ==
    (OutOfRange(args.distGiven, args.dist) \/ OutOfRange(args.harmGiven, args.harm)) =>
        /\ pc \in {"parse", "validateDistance", "validateHarmonious", "exited"}
        /\ pc # "exited" => stdout = <<>>
        /\ pc = "exited" =>
               /\ exitCode # 0
               /\ Len(stdout) = 1
               /\ stdout[1].s = ""
               /\ stdout[1].d \in {args.dist, args.harm}

\* c is achromatic for the Hue strategy: saturation < 0.1.
IsGrey(c) == FLt(hsv(c).s, F0_1)

\* a is not after b by hue ascending, then saturation descending, then value
\* descending.
HueChainNotAfter(a, b) ==
    \/ FLt(hsv(a).h, hsv(b).h)
    \/ /\ FEq(hsv(a).h, hsv(b).h)
       /\ \/ FLt(hsv(b).s, hsv(a).s)
          \/ (FEq(hsv(a).s, hsv(b).s) /\ FLe(hsv(b).v, hsv(a).v))

\* out is in the order of the Hue strategy, and the comparator agrees with
\* the positions in out: it is the comparison of a strict total order, hence
\* antisymmetric and transitive.
HueOrdered(out) ==
    LET isGrey == [c \in Cube |-> IsGrey(c)]
    IN  /\ PermutationOfCube(out)
        /\ \A i, j \in DOMAIN out :
               i < j =>
                   /\ isGrey[out[i]] => isGrey[out[j]]
                   /\ isGrey[out[i]] = isGrey[out[j]] => HueChainNotAfter(out[i], out[j])
                   /\ cmpHue(out[i], out[j]) < 0
                   /\ cmpHue(out[j], out[i]) > 0
        /\ \A c \in Cube : cmpHue(c, c) = 0

\* C8: under the Hue strategy the output is a permutation of the 216 cube
\* indices in which every achromatic index (saturation < 0.1) is after every
\* other index, each of the two groups is ordered by hue ascending, then
\* saturation descending, then value descending, and the comparator is a
\* consistent ordering (antisymmetric and transitive) of the cube band.
C8_HueStrategyOrder == (Strategy = "hue" /\ pc = "exited") => HueOrdered(Shown)

HueWritten(out) ==
    /\ Len(out) = 216
    /\ IsGrey(out[216])
    /\ ~IsGrey(out[1])
    /\ FEq(hsv(out[1]).h, hsv(out[216]).h)

\* The Hue strategy has written the palette; achromatic and other colours of
\* hue 0 are both in it.
C8_Witness ==
    /\ Strategy = "hue"
    /\ pc = "exited"
    /\ exitCode = 0
    /\ HueWritten(Shown)

\* The class of hue h.
TemperatureClass(h) ==
    IF FLe(h, FInt(60)) \/ FLe(FInt(300), h) THEN "Warm"
    ELSE IF FLt(FInt(60), h) /\ FLe(h, FInt(180)) THEN "Cool"
    ELSE "Medium"

ClassOrdinal == [Warm |-> 0, Cool |-> 2, Medium |-> 1]

\* The pairs of classes (earlier, later) the Temperature order admits.
ClassesInOrder ==
    {<<"Warm", "Warm">>, <<"Warm", "Medium">>, <<"Warm", "Cool">>,
     <<"Medium", "Medium">>, <<"Medium", "Cool">>, <<"Cool", "Cool">>}

\* a is not after b by hue ascending, then value descending, then saturation
\* descending.
TemperatureChainNotAfter(a, b) ==
    \/ FLt(hsv(a).h, hsv(b).h)
    \/ /\ FEq(hsv(a).h, hsv(b).h)
       /\ \/ FLt(hsv(b).v, hsv(a).v)
          \/ (FEq(hsv(a).v, hsv(b).v) /\ FLe(hsv(b).s, hsv(a).s))

TemperatureOrdered(out) ==
    LET class == [c \in Cube |-> TemperatureClass(hsv(c).h)]
    IN  /\ PermutationOfCube(out)
        /\ \A i, j \in DOMAIN out :
               i < j =>
                   /\ <<class[out[i]], class[out[j]]>> \in ClassesInOrder
                   /\ class[out[i]] = class[out[j]]
                          => TemperatureChainNotAfter(out[i], out[j])

TemperatureWritten(out) ==
    /\ Len(out) = 216
    /\ colourTemperature(out[1]) = 0
    /\ colourTemperature(out[216]) = 2
    /\ \E c \in Cube : colourTemperature(c) = 1

RGBChainBefore(a, b) ==
    \/ rgb(a).r < rgb(b).r
    \/ /\ rgb(a).r = rgb(b).r
       /\ \/ rgb(a).b < rgb(b).b
          \/ (rgb(a).b = rgb(b).b /\ rgb(a).g < rgb(b).g)

RGBOrdered(out) ==
    /\ PermutationOfCube(out)
    /\ \A i, j \in DOMAIN out : i < j => RGBChainBefore(out[i], out[j])
    /\ \A a, b \in Cube : a # b => (RGBChainBefore(a, b) \/ RGBChainBefore(b, a))
    /\ Position(out, 16) < Position(out, 21)
    /\ Position(out, 21) < Position(out, 52)

\* C10: with no selector the output is the permutation of the 216 cube
\* indices in the order R ascending, then B ascending, then G ascending; the
\* chain never ties two distinct indices, so the order is strict and the same
\* whatever the sort does with equal elements; 16 is before 21, which is
\* before 52.
C10_DefaultOrder == (Strategy = "rgb" /\ pc = "exited") => RGBOrdered(Shown)

DefaultWritten(out) ==
    /\ Len(out) = 216
    /\ out[1] = 16
    /\ out[2] = 22
    /\ Position(out, 21) < Position(out, 52)

\* The default strategy has written the palette: it begins 16, 22 and 21 and
\* 52 are in it.
C10_Witness ==
    /\ Strategy = "rgb"
    /\ args.flags = {}
    /\ pc = "exited"
    /\ exitCode = 0
    /\ DefaultWritten(Shown)

====
